---------------------------- MODULE Spec2Model ----------------------------
(***************************************************************************)
(* Model of the command-line utilities of cjolowicz/python-scripts:       *)
(*   git_culpa.py  glob compiler, incremental-blame parser, authorship     *)
(*                 cache (dump / query / main)                             *)
(*   stardate.py   paginated stargazer download with a conditional-fetch   *)
(*                 page cache, and the API token lookup                    *)
(* Python strings are sequences of one-character strings.                  *)
(***************************************************************************)
EXTENDS Integers, Sequences, FiniteSets, TLC

VARIABLES
    gpc,        \* git_culpa glob: "new" | "compiled" | "error" | "matched"
    pattern,    \* the glob given to compile_glob
    text,       \* the candidate path handed to pattern.match
    regex,      \* source text of the regular expression built by compile_glob
    matched,    \* result of pattern.match(text)
    flagsError, \* whether this interpreter's re.compile rejects global flags
                \* that are not at the start of the expression (3.11 on)
    \* ---- git_culpa blame parser
    bpc,        \* "new" | "blamed" | "parsed"
    entries,    \* the blame entries git reports for the file
    blameOut,   \* stdout of git blame --incremental, a sequence of lines
    parsed,     \* list(_parse_blame_incremental(stdout))
    \* ---- git_culpa main / dump / query
    cpc,            \* "idle" | "ls" | "blame" | "write" | "query" | "done" | "failed"
    cacheFile,      \* .git-culpa.json: <<>> while it does not exist, else <<content>>
    invalidate,     \* args.invalidate
    exclude,        \* args.exclude
    filenames,      \* dump: the files listed by git ls-files
    fidx,           \* dump: number of files blamed so far
    contributions,  \* dump: prefix -> author -> count
    loaded,         \* query: <<the mapping read back by json.load>>, <<>> before
    gitCalls,       \* git subprocesses run by the current invocation
    gitExit,        \* exit status of the last of them
    existedAtStart, \* whether the cache file existed when main started
    blamed,         \* per blamed file, the authors the parser yielded for it
    \* ---- stardate
    spc,        \* "idle" | "parsed" | "first" | "loop" | "done" | "failed" | "notoken"
    argToken,   \* args.token
    envToken,   \* os.environ.get("GITHUB_TOKEN")
    cacheFlag,  \* args.cache
    tokenFile,  \* content of the token file, None while it does not exist
    token,      \* the token main got from find_token
    pageCache,  \* the page cache directory: digest -> stored page
    page,       \* get_star_dates: <<the current Page>>, <<>> before the first
    lastReq,    \* <<the last HTTP request of this run and its status>>
    nReqs,      \* number of HTTP requests of this run
    fetched,    \* the URLs get_stargazers_page was called with in this run
    sleptSince  \* whether time.sleep ran since the last HTTP request

globVars == <<gpc, pattern, text, regex, matched, flagsError>>
blameVars == <<bpc, entries, blameOut, parsed>>
culpaVars == <<cpc, cacheFile, invalidate, exclude, filenames, fidx,
               contributions, loaded, gitCalls, gitExit, existedAtStart, blamed>>

starVars == <<spc, argToken, envToken, cacheFlag, tokenFile, token, pageCache,
              page, lastReq, nReqs, fetched, sleptSince>>

vars == <<globVars, blameVars, culpaVars, starVars>>

None == "None"

\* the state of a tool that is not running
GlobIdle ==
    /\ gpc = "off" /\ pattern = <<>> /\ text = <<>> /\ regex = <<>>
    /\ matched = FALSE /\ flagsError = FALSE
BlameIdle ==
    /\ bpc = "off" /\ entries = <<>> /\ blameOut = <<>> /\ parsed = <<>>
CulpaIdle ==
    /\ cpc = "off" /\ cacheFile = <<>> /\ invalidate = FALSE /\ exclude = <<None>>
    /\ filenames = <<>> /\ fidx = 0 /\ contributions = <<>> /\ loaded = <<>>
    /\ gitCalls = 0 /\ gitExit = 0 /\ existedAtStart = FALSE /\ blamed = <<>>
StarIdle ==
    /\ spc = "off" /\ argToken = None /\ envToken = None /\ cacheFlag = FALSE
    /\ tokenFile = None /\ token = None /\ pageCache = <<>> /\ page = <<>>
    /\ lastReq = <<>> /\ nReqs = 0 /\ fetched = <<>> /\ sleptSince = FALSE

\* ------------------------------------------------------------------ bounds
MaxPatLen == 3
MaxStrLen == 3

\* ------------------------------------------------------- sequence helpers
RECURSIVE SeqsUpTo(_, _)
SeqsUpTo(S, n) ==
    IF n = 0 THEN {<<>>}
    ELSE LET shorter == SeqsUpTo(S, n - 1)
         IN  shorter \cup {Append(s, c) : s \in {t \in shorter : Len(t) = n - 1}, c \in S}

Drop(s, n) == SubSeq(s, n + 1, Len(s))

\* =========================================================================
\* git_culpa.py: compile_glob
\* =========================================================================

\* Characters a glob is drawn from: a plain letter, the regex metacharacter
\* ".", the path separator, the two wildcards and the backslash.  No "[":
\* the patterns checked are the ones without a bracket expression.
GlobChars == {"a", ".", "/", "*", "?", "\\"}
\* Characters of a candidate path.
TextChars == {"a", ".", "/", "\\"}

\* Characters re.escape prefixes with a backslash (Python >= 3.7).
ReSpecial == {"(", ")", "[", "]", "{", "}", "?", "*", "+", "-", "|", "^",
              "$", "\\", ".", "&", "~", "#", " "}

\* re.escape(character) for a single character
ReEscape(c) == IF c \in ReSpecial THEN <<"\\", c>> ELSE <<c>>

\* _compile_glob_character_class(pattern, pos): <<expression, new pos>>.
\* Positions are Python's (0-based); p[i + 1] is pattern[i].
RECURSIVE SkipToBracket(_, _)
SkipToBracket(p, pos) ==
    IF pos < Len(p) /\ p[pos + 1] # "]" THEN SkipToBracket(p, pos + 1) ELSE pos

RECURSIVE DoubleBackslashes(_)
DoubleBackslashes(s) ==
    IF s = <<>> THEN <<>>
    ELSE (IF Head(s) = "\\" THEN <<"\\", "\\">> ELSE <<Head(s)>>)
         \o DoubleBackslashes(Tail(s))

CompileGlobCharacterClass(p, start) ==
    LET end  == Len(p)
        pos1 == IF start < end /\ p[start + 1] = "!" THEN start + 1 ELSE start
        pos2 == IF pos1 < end /\ p[pos1 + 1] = "]" THEN pos1 + 1 ELSE pos1
        pos3 == SkipToBracket(p, pos2)
    IN  IF pos3 >= end
        THEN <<<<"\\", "[">>, start>>
        ELSE LET cclass == DoubleBackslashes(SubSeq(p, start + 1, pos3))
                 fixed  == IF cclass[1] = "!" THEN <<"^">> \o Tail(cclass)
                           ELSE IF cclass[1] = "^" THEN <<"\\">> \o cclass
                           ELSE cclass
             IN  <<(<<"[">> \o fixed \o <<"]">>), pos3 + 1>>

CompileGlobExpressionDotStar(p, pos) ==
    LET character == p[pos + 1]
    IN  IF character = "*" THEN <<<<".", "*">>, pos + 1>>
        ELSE IF character = "?" THEN <<<<".">>, pos + 1>>
        ELSE IF character = "[" THEN CompileGlobCharacterClass(p, pos + 1)
        ELSE <<ReEscape(character), pos + 1>>

\* _compile_glob_expression(pattern, pos): <<expression, new pos>>
CompileGlobExpression(p, pos) ==
    LET character == p[pos + 1]
    IN  IF character = "*" THEN <<<<"[", "^", "/", "]", "*">>, pos + 1>>
        ELSE IF character = "?" THEN <<<<"[", "^", "/", "]">>, pos + 1>>
        ELSE IF character = "[" THEN CompileGlobCharacterClass(p, pos + 1)
        ELSE <<ReEscape(character), pos + 1>>

\* the generator inside compile_glob, joined: the regex source text
RECURSIVE CompileGlobFrom(_, _)
CompileGlobFrom(p, pos) ==
    IF pos < Len(p)
    THEN LET r == CompileGlobExpression(p, pos)
         IN  r[1] \o CompileGlobFrom(p, r[2])
    ELSE <<"\\", "Z", "(", "?", "m", "s", ")">>

CompileGlob(p) == CompileGlobFrom(p, 0)

\* ---- the regular expression engine (re.compile / Pattern.match) on the
\* ---- constructs compile_glob can emit.  With (?ms) in force "." and
\* ---- [^/] also match a newline; \Z is the end of the string.
\* An item is [kind, ch, quant]: kind "lit" (the character ch), "notslash"
\* ([^/]), "any" (.), "end" (\Z), "flags" ((?ms), matches the empty string).
Quant(src, p) ==
    IF p <= Len(src) /\ src[p] = "*" THEN "star"
    ELSE IF p <= Len(src) /\ src[p] = "?" THEN "opt"
    ELSE "one"

QLen(q) == IF q = "one" THEN 0 ELSE 1

RECURSIVE ReParse(_, _)
ReParse(src, p) ==
    IF p > Len(src) THEN <<>>
    ELSE IF p + 3 <= Len(src) /\ SubSeq(src, p, p + 3) = <<"[", "^", "/", "]">>
    THEN LET q == Quant(src, p + 4)
         IN  <<[kind |-> "notslash", ch |-> "", quant |-> q]>>
             \o ReParse(src, p + 4 + QLen(q))
    ELSE IF p + 4 <= Len(src) /\ SubSeq(src, p, p + 4) = <<"(", "?", "m", "s", ")">>
    THEN <<[kind |-> "flags", ch |-> "", quant |-> "one"]>> \o ReParse(src, p + 5)
    ELSE IF src[p] = "\\" /\ p + 1 <= Len(src)
    THEN IF src[p + 1] = "Z"
         THEN <<[kind |-> "end", ch |-> "", quant |-> "one"]>> \o ReParse(src, p + 2)
         ELSE LET q == Quant(src, p + 2)
              IN  <<[kind |-> "lit", ch |-> src[p + 1], quant |-> q]>>
                  \o ReParse(src, p + 2 + QLen(q))
    ELSE LET q == Quant(src, p + 1)
         IN  <<[kind |-> IF src[p] = "." THEN "any" ELSE "lit",
                ch |-> src[p], quant |-> q]>>
             \o ReParse(src, p + 1 + QLen(q))

ItemAccepts(item, c) ==
    CASE item.kind = "lit"      -> c = item.ch
      [] item.kind = "notslash" -> c # "/"
      [] item.kind = "any"      -> TRUE
      [] OTHER                  -> FALSE

\* whether items[i..] can match a prefix of t starting at 0-based offset j
RECURSIVE ReMatchFrom(_, _, _, _)
ReMatchFrom(items, i, t, j) ==
    IF i > Len(items) THEN TRUE
    ELSE LET item == items[i]
         IN  CASE item.kind = "end"   -> j = Len(t) /\ ReMatchFrom(items, i + 1, t, j)
               [] item.kind = "flags" -> ReMatchFrom(items, i + 1, t, j)
               [] OTHER ->
                    LET here == j < Len(t) /\ ItemAccepts(item, t[j + 1])
                    IN  CASE item.quant = "one" ->
                                here /\ ReMatchFrom(items, i + 1, t, j + 1)
                          [] item.quant = "opt" ->
                                \/ here /\ ReMatchFrom(items, i + 1, t, j + 1)
                                \/ ReMatchFrom(items, i + 1, t, j)
                          [] OTHER ->
                                \/ here /\ ReMatchFrom(items, i, t, j + 1)
                                \/ ReMatchFrom(items, i + 1, t, j)

\* pattern.match(path) is not None, for the pattern compiled from src
ReMatch(src, t) == ReMatchFrom(ReParse(src, 1), 1, t, 0)

GlobInit ==
    /\ gpc = "new"
    /\ pattern \in SeqsUpTo(GlobChars, MaxPatLen)
    /\ text \in SeqsUpTo(TextChars, MaxStrLen)
    /\ regex = <<>>
    /\ matched = FALSE
    /\ flagsError \in BOOLEAN
    /\ BlameIdle /\ CulpaIdle /\ StarIdle

\* patterns = [compile_glob(pathspec) for pathspec in pathspecs]
\* re.compile raises re.error on "\Z(?ms)" where trailing global flags are
\* rejected, otherwise it returns the pattern.
GlobCompile ==
    /\ gpc = "new"
    /\ regex' = CompileGlob(pattern)
    /\ gpc' = IF flagsError THEN "error" ELSE "compiled"
    /\ UNCHANGED <<pattern, text, matched, flagsError, blameVars, culpaVars, starVars>>

\* pattern.match(path) in query's path filter
GlobMatch ==
    /\ gpc = "compiled"
    /\ matched' = ReMatch(regex, text)
    /\ gpc' = "matched"
    /\ UNCHANGED <<pattern, text, regex, flagsError, blameVars, culpaVars, starVars>>

GlobNext == GlobCompile \/ GlobMatch

SpecGlob == GlobInit /\ [][GlobNext]_vars

\* ---- glob semantics the compiled pattern is compared with
\* Shell globbing within path segments: "*" a run of non-"/" characters,
\* "?" one non-"/" character, backslash quotes the next character (a final
\* lone backslash stands for itself), anything else stands for itself.
RECURSIVE ShellGlobMatch(_, _)
ShellGlobMatch(p, t) ==
    IF p = <<>> THEN t = <<>>
    ELSE CASE Head(p) = "*" ->
                \/ ShellGlobMatch(Tail(p), t)
                \/ t # <<>> /\ Head(t) # "/" /\ ShellGlobMatch(p, Tail(t))
           [] Head(p) = "?" ->
                t # <<>> /\ Head(t) # "/" /\ ShellGlobMatch(Tail(p), Tail(t))
           [] Head(p) = "\\" /\ Len(p) >= 2 ->
                t # <<>> /\ Head(t) = p[2] /\ ShellGlobMatch(Drop(p, 2), Tail(t))
           [] OTHER ->
                t # <<>> /\ Head(t) = Head(p) /\ ShellGlobMatch(Tail(p), Tail(t))

\* The same with the backslash an ordinary character (no quoting).
RECURSIVE LiteralGlobMatch(_, _)
LiteralGlobMatch(p, t) ==
    IF p = <<>> THEN t = <<>>
    ELSE CASE Head(p) = "*" ->
                \/ LiteralGlobMatch(Tail(p), t)
                \/ t # <<>> /\ Head(t) # "/" /\ LiteralGlobMatch(p, Tail(t))
           [] Head(p) = "?" ->
                t # <<>> /\ Head(t) # "/" /\ LiteralGlobMatch(Tail(p), Tail(t))
           [] OTHER ->
                t # <<>> /\ Head(t) = Head(p) /\ LiteralGlobMatch(Tail(p), Tail(t))

HasChar(s, c) == \E i \in 1..Len(s) : s[i] = c

\* C1 (as stated): for a pattern without a bracket expression the compiled
\* regular expression matches a string exactly when shell globbing within
\* path segments does, the backslash quoting the next character.
C1_ShellGlob ==
    (gpc = "matched" /\ ~HasChar(pattern, "["))
        => (matched <=> ShellGlobMatch(pattern, text))

\* C1 (amended): for a pattern without a bracket expression the compiled
\* regular expression matches a string exactly when the glob does with "*" a
\* run of non-"/" characters, "?" one non-"/" character and every other
\* character, the backslash included, standing for itself.
C1_LiteralGlob ==
    (gpc = "matched" /\ ~HasChar(pattern, "["))
        => (matched <=> LiteralGlobMatch(pattern, text))

\* a wildcard pattern with a literal part has been matched successfully
C1_Witness ==
    /\ gpc = "matched"
    /\ matched
    /\ HasChar(pattern, "*")
    /\ HasChar(pattern, "\\")
    /\ Len(text) >= 2

\* =========================================================================
\* git_culpa.py: _parse_blame_incremental
\* =========================================================================
MaxEntries == 3
MaxLines == 2

TOTALS == "null"

\* Two commits; the second one's author is named like the totals key.
Sha1 == "1111111111111111111111111111111111111111"
Sha2 == "2222222222222222222222222222222222222222"
Shas == {Sha1, Sha2}
AuthorOf(sha) == IF sha = Sha1 THEN "A" ELSE "null"
Authors == {AuthorOf(sha) : sha \in Shas}

\* A blame entry: a group of n consecutive lines attributed to one commit.
EntryKinds(maxLines) == [sha : Shas, n : 1..maxLines]
EntryLists(maxEntries, maxLines) == SeqsUpTo(EntryKinds(maxLines), maxEntries)

\* Output of git blame --incremental for a list of entries.  A line is
\* [tag, payload], the two sides of line.partition(" ").  Every entry is a
\* header "<sha> <source line> <result line> <number of lines>" and ends
\* with "filename <path>"; the commit's details (author, ...) are printed
\* only with the first entry of that commit.
RECURSIVE BlameOutputFrom(_, _, _)
BlameOutputFrom(es, i, line) ==
    IF i > Len(es) THEN <<>>
    ELSE LET e     == es[i]
             first == \A j \in 1..(i - 1) : es[j].sha # e.sha
             head  == <<[tag |-> e.sha, payload |-> <<line, line, e.n>>]>>
             info  == IF first
                      THEN <<[tag |-> "author", payload |-> AuthorOf(e.sha)],
                             [tag |-> "author-mail", payload |-> "<mail>"],
                             [tag |-> "summary", payload |-> "message"]>>
                      ELSE <<>>
             tail  == <<[tag |-> "filename", payload |-> "path"]>>
         IN  head \o info \o tail \o BlameOutputFrom(es, i + 1, line + e.n)

BlameOutput(es) == BlameOutputFrom(es, 1, 1)

\* Python dicts: d[k] = v, and {}
DictPut(d, k, v) == [x \in (DOMAIN d) \cup {k} |-> IF x = k THEN v ELSE d[x]]
EmptyDict == [x \in {} |-> None]

\* the loop of _parse_blame_incremental from line i on, with the authors
\* seen and the current sha; the list of yielded authors
RECURSIVE ParseBlameFrom(_, _, _, _)
ParseBlameFrom(lines, i, authors, sha) ==
    IF i > Len(lines) THEN <<>>
    ELSE LET tag     == lines[i].tag
             payload == lines[i].payload
         IN  IF Len(tag) = 40
             THEN ParseBlameFrom(lines, i + 1, authors, tag)
             ELSE IF sha # ""
             THEN LET authors2 == IF tag = "author"
                                  THEN DictPut(authors, sha, payload) ELSE authors
                  IN  (IF tag = "filename" THEN <<authors2[sha]>> ELSE <<>>)
                      \o ParseBlameFrom(lines, i + 1, authors2, sha)
             ELSE ParseBlameFrom(lines, i + 1, authors, sha)

ParseBlameIncremental(lines) == ParseBlameFrom(lines, 1, EmptyDict, "")

BlameInit ==
    /\ bpc = "new"
    /\ entries \in EntryLists(MaxEntries, MaxLines)
    /\ blameOut = <<>>
    /\ parsed = <<>>
    /\ GlobIdle /\ CulpaIdle /\ StarIdle

\* git blame --incremental -- filename
BlameRun ==
    /\ bpc = "new"
    /\ blameOut' = BlameOutput(entries)
    /\ bpc' = "blamed"
    /\ UNCHANGED <<entries, parsed, globVars, culpaVars, starVars>>

\* for author in _parse_blame_incremental(process.stdout)
BlameParse ==
    /\ bpc = "blamed"
    /\ parsed' = ParseBlameIncremental(blameOut)
    /\ bpc' = "parsed"
    /\ UNCHANGED <<entries, blameOut, globVars, culpaVars, starVars>>

BlameNext == BlameRun \/ BlameParse

SpecBlame == BlameInit /\ [][BlameNext]_vars

RECURSIVE SumLines(_)
SumLines(es) == IF es = <<>> THEN 0 ELSE Head(es).n + SumLines(Tail(es))

\* the author of every line of the file, entry by entry
RECURSIVE LineAuthors(_)
LineAuthors(es) ==
    IF es = <<>> THEN <<>>
    ELSE [k \in 1..Head(es).n |-> AuthorOf(Head(es).sha)] \o LineAuthors(Tail(es))

\* C8: for output whose entries cover N lines of the file the parser yields
\* exactly N authors, the author of the commit of the entry covering each
\* line, also for entries of a commit already seen.
C8_AuthorPerLine ==
    bpc = "parsed" => /\ Len(parsed) = SumLines(entries)
                      /\ parsed = LineAuthors(entries)

\* =========================================================================
\* git_culpa.py: main, dump, query and the authorship cache
\* =========================================================================
MaxFiles == 2
DumpMaxEntries == 1

\* The files git tracks, in the order git ls-files prints them.
Tracked == << <<"a">>, <<"d", "/", "a">>, <<"d", "/", "b">> >>

\* filename.split("/")
RECURSIVE SplitSlash(_, _)
SplitSlash(s, cur) ==
    IF s = <<>> THEN <<cur>>
    ELSE IF Head(s) = "/" THEN <<cur>> \o SplitSlash(Tail(s), <<>>)
    ELSE SplitSlash(Tail(s), Append(cur, Head(s)))

\* "/".join(parts)
RECURSIVE JoinSlash(_)
JoinSlash(parts) ==
    IF parts = <<>> THEN <<>>
    ELSE IF Len(parts) = 1 THEN parts[1]
    ELSE parts[1] \o <<"/">> \o JoinSlash(Tail(parts))

\* prefixes = ["/".join(parts[:index]) for index in range(len(parts) + 1)]
Prefixes(filename) ==
    LET parts == SplitSlash(filename, <<>>)
    IN  [i \in 1..(Len(parts) + 1) |-> JoinSlash(SubSeq(parts, 1, i - 1))]

\* contributions[prefix][author] += 1 on a defaultdict of defaultdict(int)
Increment(c, prefix, author) ==
    LET inner == IF prefix \in DOMAIN c THEN c[prefix] ELSE EmptyDict
        count == IF author \in DOMAIN inner THEN inner[author] ELSE 0
    IN  DictPut(c, prefix, DictPut(inner, author, count + 1))

\* for prefix in prefixes: count the author, then the totals
RECURSIVE CountPrefixes(_, _, _)
CountPrefixes(c, prefixes, author) ==
    IF prefixes = <<>> THEN c
    ELSE CountPrefixes(Increment(Increment(c, Head(prefixes), author),
                                 Head(prefixes), TOTALS),
                       Tail(prefixes), author)

\* for author in _parse_blame_incremental(...): for prefix in prefixes: ...
RECURSIVE CountAuthors(_, _, _)
CountAuthors(c, prefixes, authors) ==
    IF authors = <<>> THEN c
    ELSE CountAuthors(CountPrefixes(c, prefixes, Head(authors)),
                      prefixes, Tail(authors))

\* json.dump of a dict with string keys: a JSON object, the set of its
\* members <<name, value>>; a nested dict is a nested object, an int a number.
JsonDumpInner(d) == {<<k, d[k]>> : k \in DOMAIN d}

JsonDumpDropRoot(c) == {<<k, JsonDumpInner(c[k])>> : k \in (DOMAIN c) \ {<<>>}}

JsonDump(c) == {<<k, JsonDumpInner(c[k])>> : k \in DOMAIN c}

\* json.load of an object: a dict from its member names to their values
JsonLoadInner(obj) ==
    [k \in {m[1] : m \in obj} |-> (CHOOSE m \in obj : m[1] = k)[2]]
JsonLoad(obj) ==
    [k \in {m[1] : m \in obj} |-> JsonLoadInner((CHOOSE m \in obj : m[1] = k)[2])]

\* An optional command-line string is <<None>> when the option is absent,
\* else its characters; bool(x) of it
NoArg == <<None>>
TruthyArg(x) == x # NoArg /\ x # <<>>

NeedsDumpOnExclude(inv, exc, file) == inv \/ file = <<>> \/ TruthyArg(exc)

\* main: if args.invalidate or not getcache().exists()
NeedsDump(inv, exc, file) == inv \/ file = <<>>

\* whether path f is at or under the directory (or file) p
Under(f, p) ==
    \/ p = <<>>
    \/ f = p
    \/ Len(f) > Len(p) /\ SubSeq(f, 1, Len(p)) = p /\ f[Len(p) + 1] = "/"

\* What git ls-files prints: the tracked files, without those under the
\* excluded pathspec when --exclude is given and not empty.
Listed(exc) ==
    IF TruthyArg(exc)
    THEN {i \in 1..Len(Tracked) : ~Under(Tracked[i], exc)}
    ELSE 1..Len(Tracked)

RECURSIVE PickFiles(_, _)
PickFiles(idx, i) ==
    IF i > Len(Tracked) THEN <<>>
    ELSE (IF i \in idx THEN <<Tracked[i]>> ELSE <<>>) \o PickFiles(idx, i + 1)

\* the listings of a repository that tracks at most MaxFiles of the files
FileLists(exc) ==
    {PickFiles(idx, 1) : idx \in {x \in SUBSET Listed(exc) : Cardinality(x) <= MaxFiles}}

Excludes == {NoArg, <<>>, <<"d">>}

\* exit statuses of git: success, or the failure of a fatal error
GitExits == {0, 128}

CheckRaisesNever(exit) == FALSE

\* subprocess.run(..., check=True) raises CalledProcessError
CheckRaises(exit) == exit # 0

CulpaInit ==
    /\ cpc = "idle"
    /\ cacheFile = <<>>
    /\ invalidate = FALSE /\ exclude = NoArg
    /\ filenames = <<>> /\ fidx = 0 /\ contributions = EmptyDict
    /\ loaded = <<>> /\ gitCalls = 0 /\ gitExit = 0 /\ existedAtStart = FALSE
    /\ blamed = <<>>
    /\ GlobIdle /\ BlameIdle /\ StarIdle

\* main up to the call of dump or query
CulpaMain ==
    /\ cpc = "idle"
    /\ \E inv \in BOOLEAN, exc \in Excludes :
        /\ invalidate' = inv
        /\ exclude' = exc
        /\ cpc' = IF NeedsDump(inv, exc, cacheFile) THEN "ls" ELSE "query"
    /\ existedAtStart' = (cacheFile # <<>>)
    /\ filenames' = <<>> /\ fidx' = 0 /\ contributions' = EmptyDict
    /\ loaded' = <<>> /\ gitCalls' = 0 /\ gitExit' = 0 /\ blamed' = <<>>
    /\ UNCHANGED <<cacheFile, globVars, blameVars, starVars>>

\* dump: git ls-files, which lists the files or fails
DumpLsFiles ==
    /\ cpc = "ls"
    /\ gitCalls' = gitCalls + 1
    /\ \E exit \in GitExits, list \in FileLists(exclude) :
          /\ gitExit' = exit
          /\ IF CheckRaises(exit)
             THEN /\ cpc' = "failed"
                  /\ UNCHANGED <<filenames, contributions>>
             ELSE /\ filenames' = IF exit = 0 THEN list ELSE <<>>
                  /\ cpc' = IF filenames' = <<>> THEN "write" ELSE "blame"
                  /\ contributions' = EmptyDict
    /\ UNCHANGED <<cacheFile, invalidate, exclude, fidx, loaded,
                   existedAtStart, blamed, globVars, blameVars, starVars>>

\* dump: one turn of the loop over the files: git blame, parse, count.
\* The parser never reads an entry's number of lines, so the files blamed
\* here have one-line entries.
DumpBlame ==
    /\ cpc = "blame"
    /\ gitCalls' = gitCalls + 1
    /\ \E exit \in GitExits, es \in EntryLists(DumpMaxEntries, 1) :
          LET filename == filenames[fidx + 1]
              stdout   == IF exit = 0 THEN BlameOutput(es) ELSE <<>>
              authors  == ParseBlameIncremental(stdout)
          IN  /\ gitExit' = exit
              /\ IF CheckRaises(exit)
                 THEN /\ cpc' = "failed"
                      /\ UNCHANGED <<contributions, blamed, fidx>>
                 ELSE /\ contributions' =
                            CountAuthors(contributions, Prefixes(filename), authors)
                      /\ blamed' = Append(blamed, authors)
                      /\ fidx' = fidx + 1
                      /\ cpc' = IF fidx + 1 < Len(filenames) THEN "blame"
                                ELSE "write"
    /\ UNCHANGED <<cacheFile, invalidate, exclude, filenames, loaded,
                   existedAtStart, globVars, blameVars, starVars>>

\* dump: json.dump(contributions, io) into the cache file; back in main
DumpWrite ==
    /\ cpc = "write"
    /\ cacheFile' = <<JsonDump(contributions)>>
    /\ cpc' = "query"
    /\ UNCHANGED <<invalidate, exclude, filenames, fidx, contributions, loaded,
                   gitCalls, gitExit, existedAtStart, blamed, globVars, blameVars, starVars>>

\* query: contributions = json.load(io), then the report
CulpaQuery ==
    /\ cpc = "query"
    /\ loaded' = <<JsonLoad(cacheFile[1])>>
    /\ cpc' = "done"
    /\ UNCHANGED <<cacheFile, invalidate, exclude, filenames, fidx, contributions,
                   gitCalls, gitExit, existedAtStart, blamed, globVars, blameVars, starVars>>

\* the process ends (normally or with the propagated exception)
CulpaExit ==
    /\ cpc \in {"done", "failed"}
    /\ cpc' = "idle"
    /\ invalidate' = FALSE /\ exclude' = NoArg
    /\ filenames' = <<>> /\ fidx' = 0 /\ contributions' = EmptyDict
    /\ loaded' = <<>> /\ gitCalls' = 0 /\ gitExit' = 0 /\ existedAtStart' = FALSE
    /\ blamed' = <<>>
    /\ UNCHANGED <<cacheFile, globVars, blameVars, starVars>>

CulpaNext ==
    \/ CulpaMain
    \/ DumpLsFiles
    \/ DumpBlame
    \/ DumpWrite
    \/ CulpaQuery
    \/ CulpaExit

SpecCulpa == CulpaInit /\ [][CulpaNext]_vars

\* ---- claims about the authorship cache
DumpRan == invalidate \/ ~existedAtStart

RECURSIVE CountOf(_, _)
CountOf(authors, a) ==
    IF authors = <<>> THEN 0
    ELSE (IF Head(authors) = a THEN 1 ELSE 0) + CountOf(Tail(authors), a)

\* blame results attributed to a in the first n blamed files at or under p
RECURSIVE ResultsUnder(_, _, _)
ResultsUnder(p, a, n) ==
    IF n = 0 THEN 0
    ELSE (IF Under(filenames[n], p) THEN CountOf(blamed[n], a) ELSE 0)
         + ResultsUnder(p, a, n - 1)

\* the count the cache file holds for (p, key), 0 when it holds none
Cached(p, key) ==
    LET c == JsonLoad(cacheFile[1])
    IN  IF p \in DOMAIN c /\ key \in DOMAIN c[p] THEN c[p][key] ELSE 0

RECURSIVE SumCached(_, _)
SumCached(p, as) ==
    IF as = {} THEN 0
    ELSE LET a == CHOOSE x \in as : TRUE
         IN  Cached(p, a) + SumCached(p, as \ {a})

FilePrefixes == UNION {{Prefixes(filenames[i])[k] :
                            k \in 1..Len(Prefixes(filenames[i]))} :
                       i \in 1..Len(filenames)}

\* C9: after dump, for every prefix P of a tracked file and every author A
\* (one named "null" included) the cached count of (P, A) is the number of
\* blame results attributed to A in the files at or under P, and the totals
\* entry of P is the sum of the counts of all authors under P.
C9_CountsPerAuthor ==
    (cpc \in {"query", "done"} /\ DumpRan) =>
        \A p \in FilePrefixes :
            /\ \A a \in Authors : Cached(p, a) = ResultsUnder(p, a, Len(filenames))
            /\ Cached(p, TOTALS) = SumCached(p, Authors)

\* C10: main calls dump exactly when --invalidate is given or the cache file
\* does not exist, and a dump that completes rewrites the cache with what it
\* computed; a run that does not call dump runs no git command, leaves the
\* cache file as it is whatever --exclude is, and query reads that file.
C10_Step ==
    /\ (cpc = "idle" /\ cpc' # "idle") =>
          /\ (cpc' = "ls") <=> (invalidate' \/ cacheFile = <<>>)
          /\ cpc' \in {"ls", "query"}
    /\ (gitCalls' > gitCalls) => DumpRan
    /\ (cacheFile' # cacheFile) =>
          /\ DumpRan
          /\ cpc = "write"
          /\ cacheFile' = <<JsonDump(contributions)>>
    /\ (cpc # "idle" /\ cpc' = "query") => (cpc = "write" /\ cacheFile' # <<>>)
    /\ (cpc = "query" /\ cpc' # "query") =>
          /\ cacheFile' = cacheFile
          /\ loaded' = <<JsonLoad(cacheFile[1])>>

C10_DumpExactlyWhenNeeded == [][C10_Step]_vars

\* a run with --exclude and an existing cache that reported without git
C10_Witness ==
    /\ cpc = "done"
    /\ existedAtStart /\ ~invalidate /\ TruthyArg(exclude)
    /\ gitCalls = 0
    /\ loaded = <<JsonLoad(cacheFile[1])>>

\* =========================================================================
\* stardate.py: token lookup and the paginated, cached download
\* =========================================================================
MaxPages == 3

\* URLs are page numbers: 1 is .../repos/<repository>/stargazers, the others
\* are the pages its Link headers lead to.  0 stands for "no URL".
FirstUrl == 1
NoUrl == 0

\* hashlib.blake2b(url.encode()).hexdigest(): distinct URLs, distinct digests
Digest(url) == "blake2b-" \o ToString(url)

\* validators the server hands out, and the body that goes with each
ETags == {"e1", "e2"}
BodyOf(etag) == "stargazers-" \o etag

OK == 200
NOT_MODIFIED == 304
Statuses == {OK, NOT_MODIFIED, 403, 500}

\* Link headers the server sends for page u: a list of fields [url, rel] as
\* in '<url>; rel="next", <url>; rel="last"'.  The last page names only the
\* first one; pagination only leads forward.
LinkHeaders(u) ==
    {<<[url |-> FirstUrl, rel |-> "first"]>>}
    \cup {<<[url |-> v, rel |-> "next"], [url |-> MaxPages, rel |-> "last"]>> :
              v \in (u + 1)..MaxPages}

\* parse_link_header: dict of (rel, url) over the fields, a later field
\* replacing an earlier one of the same rel
RECURSIVE ParseLinkFields(_, _)
ParseLinkFields(fields, d) ==
    IF fields = <<>> THEN d
    ELSE ParseLinkFields(Tail(fields), DictPut(d, Head(fields).rel, Head(fields).url))

ParseLinkHeader(header) == ParseLinkFields(header, EmptyDict)

\* page.link.get(rel), NoUrl for None
LinkGet(link, rel) == IF rel \in DOMAIN link THEN link[rel] ELSE NoUrl

NextUrlLast(p) == LinkGet(p.link, "last")

\* get_star_dates: url := page.link.get("next")
NextUrl(p) == LinkGet(p.link, "next")

\* get_star_dates: if not page.cached: time.sleep(1)
ShouldSleep(p) == ~p.cached

\* bool(x) of an optional string
Truthy(x) == x # None /\ x # ""

IfNoneMatchNever(etag) == None

\* request_stargazers: the If-None-Match header sent, None when there is none
IfNoneMatch(etag) == IF Truthy(etag) THEN etag ELSE None

\* request_stargazers: whether it raises (raise_for_status unless 304)
Raises(status) == status # NOT_MODIFIED /\ ~(status >= 200 /\ status < 300)

\* load_page_from_cache(url): <<Page>> from the stored page, <<>> for None
LoadPageFromCache(cache, url) ==
    IF Digest(url) \in DOMAIN cache
    THEN LET data == cache[Digest(url)]
         IN  <<[url |-> data.url, link |-> data.link, etag |-> data.etag,
                results |-> data.results, cached |-> TRUE]>>
    ELSE <<>>

\* save_page_to_cache(page): the cache directory afterwards
SavePageToCache(cache, p) ==
    DictPut(cache, Digest(p.url),
            [url |-> p.url, link |-> p.link, etag |-> p.etag, results |-> p.results])

FindTokenEnvFirst(arg, env) ==
    IF Truthy(env) THEN env ELSE IF Truthy(arg) THEN arg ELSE None

\* find_token: args.token or os.environ.get("GITHUB_TOKEN"), None if neither
SuppliedToken(arg, env) ==
    IF Truthy(arg) THEN arg ELSE IF Truthy(env) THEN env ELSE None

\* What the server may answer to a request for url carrying the validator
\* sent: 304 only to a conditional request; 200 with an ETag, a body and a
\* Link header, or with none (hasLink FALSE); or an error status.
Responses(url, sent) ==
    {[status |-> st, etag |-> "", hasLink |-> FALSE, link |-> <<>>] :
        st \in {x \in Statuses : x # OK /\ (x = NOT_MODIFIED => sent # None)}}
    \cup {[status |-> OK, etag |-> e, hasLink |-> TRUE, link |-> l] :
              e \in ETags, l \in LinkHeaders(url)}
    \cup {[status |-> OK, etag |-> e, hasLink |-> FALSE, link |-> <<>>] : e \in ETags}

TokenArgs == {None, "", "t1"}
TokenEnvs == {None, "", "t2"}

StarInit ==
    /\ spc = "idle"
    /\ argToken = None /\ envToken = None /\ cacheFlag = FALSE
    /\ tokenFile = None /\ token = None
    /\ pageCache = EmptyDict
    /\ page = <<>> /\ lastReq = <<>> /\ nReqs = 0 /\ fetched = <<>> /\ sleptSince = FALSE
    /\ GlobIdle /\ BlameIdle /\ CulpaIdle

\* main: parser.parse_args() with the environment of the process, the
\* token options drawn from args and envs
ParseArgs(args, envs) ==
    /\ spc = "idle"
    /\ argToken' \in args
    /\ envToken' \in envs
    /\ cacheFlag' \in BOOLEAN
    /\ spc' = "parsed"
    /\ UNCHANGED <<tokenFile, token, pageCache, page, lastReq, nReqs, fetched,
                   sleptSince, globVars, blameVars, culpaVars>>

StarParseArgs == ParseArgs(TokenArgs, TokenEnvs)

\* the same for a user who always passes --token
StarParseArgsToken == ParseArgs({"t1"}, {None})

\* main: token = find_token(args); raise if not token
StarFindToken ==
    /\ spc = "parsed"
    /\ LET supplied == SuppliedToken(argToken, envToken)
       IN  IF Truthy(supplied)
           THEN /\ tokenFile' = supplied
                /\ token' = supplied
                /\ spc' = "first"
           ELSE /\ tokenFile' = tokenFile
                /\ token' = tokenFile
                /\ spc' = IF Truthy(tokenFile) THEN "first" ELSE "notoken"
    /\ UNCHANGED <<argToken, envToken, cacheFlag, pageCache, page, lastReq, nReqs, fetched, sleptSince,
                   globVars, blameVars, culpaVars>>

\* get_stargazers_page(url, token=token, cache=cacheFlag), called after
\* sleeping or not (slept); where it raises the run has failed.
GetStargazersPage(url, slept) ==
    LET stored == LoadPageFromCache(pageCache, url)
        etag   == IF stored # <<>> THEN stored[1].etag ELSE None
        sent   == IfNoneMatch(etag)
        since  == sleptSince \/ slept
    IN  /\ fetched' = Append(fetched, url)
        /\ IF cacheFlag /\ stored # <<>>
           THEN /\ page' = stored
                /\ sleptSince' = since
                /\ spc' = "loop"
                /\ UNCHANGED <<pageCache, lastReq, nReqs>>
           ELSE \E resp \in Responses(url, sent) :
                /\ lastReq' = <<[url |-> url, etag |-> sent,
                                  status |-> resp.status, slept |-> since]>>
                /\ nReqs' = nReqs + 1
                /\ sleptSince' = FALSE
                /\ IF \/ Raises(resp.status)
                      \/ resp.status # NOT_MODIFIED /\ ~resp.hasLink
                      \/ resp.status = NOT_MODIFIED /\ stored = <<>>
                   THEN /\ spc' = "failed"
                        /\ UNCHANGED <<page, pageCache>>
                   ELSE IF resp.status = NOT_MODIFIED
                   THEN /\ page' = stored
                        /\ spc' = "loop"
                        /\ UNCHANGED pageCache
                   ELSE LET new == [url |-> url,
                                    link |-> ParseLinkHeader(resp.link),
                                    etag |-> resp.etag,
                                    results |-> BodyOf(resp.etag),
                                    cached |-> FALSE]
                        IN  /\ page' = <<new>>
                            /\ pageCache' = SavePageToCache(pageCache, new)
                            /\ spc' = "loop"

\* get_star_dates: the first page
StarFirstPage ==
    /\ spc = "first"
    /\ GetStargazersPage(FirstUrl, FALSE)
    /\ UNCHANGED <<argToken, envToken, cacheFlag, tokenFile, token,
                   globVars, blameVars, culpaVars>>

\* get_star_dates: one turn of the while loop, or its end
StarNextPage ==
    /\ spc = "loop"
    /\ LET url == NextUrl(page[1])
       IN  IF url = NoUrl
           THEN /\ spc' = "done"
                /\ UNCHANGED <<page, pageCache, lastReq, nReqs, fetched, sleptSince>>
           ELSE GetStargazersPage(url, ShouldSleep(page[1]))
    /\ UNCHANGED <<argToken, envToken, cacheFlag, tokenFile, token,
                   globVars, blameVars, culpaVars>>

\* the process ends: with the table or plot, or with the exception
StarExit ==
    /\ spc \in {"done", "failed", "notoken"}
    /\ spc' = "idle"
    /\ argToken' = None /\ envToken' = None /\ cacheFlag' = FALSE /\ token' = None
    /\ page' = <<>> /\ lastReq' = <<>> /\ nReqs' = 0 /\ fetched' = <<>> /\ sleptSince' = FALSE
    /\ UNCHANGED <<tokenFile, pageCache, globVars, blameVars, culpaVars>>

StarNext ==
    \/ StarParseArgs
    \/ StarFindToken
    \/ StarFirstPage
    \/ StarNextPage
    \/ StarExit

SpecStar == StarInit /\ [][StarNext]_vars

\* The downloads of a user who always passes --token; the scheduler runs the
\* (single, sequential) process whenever it can step.
StarNextToken ==
    \/ StarParseArgsToken
    \/ StarFindToken
    \/ StarFirstPage
    \/ StarNextPage
    \/ StarExit

SpecStarFair == StarInit /\ [][StarNextToken]_vars /\ WF_vars(StarNextToken)

\* either tool, from its start
SpecTools == (CulpaInit \/ StarInit) /\ [][CulpaNext \/ StarNext]_vars

Last(s) == s[Len(s)]

\* ---- claims about the download
ChainStarted ==
    /\ fetched # <<>> => fetched[1] = FirstUrl
    /\ spc = "loop" => fetched # <<>> /\ Last(fetched) = page[1].url
    /\ spc = "done" => /\ fetched # <<>> /\ Last(fetched) = page[1].url
                       /\ LinkGet(page[1].link, "next") = NoUrl
    /\ nReqs <= Len(fetched)

ChainStep ==
    /\ (fetched' # fetched /\ fetched # <<>> /\ fetched' # <<>>) =>
          /\ LinkGet(page[1].link, "next") # NoUrl
          /\ fetched' = Append(fetched, LinkGet(page[1].link, "next"))
    /\ (spc = "loop" /\ LinkGet(page[1].link, "next") = NoUrl) =>
          (spc' = "done" /\ fetched' = fetched /\ nReqs' = nReqs)
    /\ (nReqs' > nReqs) =>
          (fetched' # fetched /\ lastReq'[1].url = Last(fetched'))

\* C2: get_star_dates fetches the first page, then exactly the URLs given by
\* the "next" link of each page it got, in order; it stops with no further
\* fetch as soon as the last page has no "next" link, and so the download
\* ends (completed or failed) whenever the chain of pages ends.
C2_FollowsNextUntilAbsent ==
    /\ []ChainStarted
    /\ [][ChainStep]_vars
    /\ (spc \in {"first", "loop"}) ~> (spc \in {"done", "failed"})

\* a completed download of three pages
C2_Witness ==
    /\ spc = "done"
    /\ Len(fetched) >= 3
    /\ nReqs >= 1

\* C3: with a cache entry for the URL and no cache flag, get_stargazers_page
\* sends the entry's etag as If-None-Match; on "not modified" it returns the
\* cached page (same results, link and etag) and leaves the cache as it is;
\* an entry is replaced only by a response to a request for its URL that is
\* not "not modified".
C3_Step ==
    LET live == nReqs' = nReqs + 1
        r    == lastReq'[1]
    IN  /\ (fetched' # fetched /\ fetched' # <<>> /\ ~cacheFlag) => live
        /\ (live /\ Digest(r.url) \in DOMAIN pageCache) =>
              LET entry == pageCache[Digest(r.url)]
              IN  /\ r.etag = entry.etag
                  /\ r.status = NOT_MODIFIED =>
                        /\ pageCache' = pageCache
                        /\ spc' = "loop"
                        /\ page'[1].url = r.url
                        /\ page'[1].results = entry.results
                        /\ page'[1].link = entry.link
                        /\ page'[1].etag = entry.etag
        /\ DOMAIN pageCache \subseteq DOMAIN pageCache'
        /\ \A d \in DOMAIN pageCache' :
              (d \notin DOMAIN pageCache \/ pageCache'[d] # pageCache[d]) =>
                  /\ live
                  /\ d = Digest(r.url)
                  /\ r.status = OK
                  /\ pageCache'[d].url = r.url

C3_ConditionalFetch == [][C3_Step]_vars

\* a validated entry: the server answered "not modified" to the cached etag
C3_Witness ==
    /\ spc = "loop" /\ ~cacheFlag
    /\ lastReq # <<>>
    /\ lastReq[1].status = NOT_MODIFIED
    /\ lastReq[1].etag \in ETags
    /\ page[1].cached
    /\ Digest(page[1].url) \in DOMAIN pageCache

\* C4: between any two consecutive HTTP requests of a run the delay has been
\* slept, whatever the answer to the first of them was.
C4_DelayBetweenRequests ==
    (nReqs >= 2) => lastReq[1].slept

\* C6: an HTTP error status makes get_stargazers_page raise with no cache
\* entry written, and the run issues no further request; a git subprocess
\* exiting non-zero makes dump raise with no further file processed and the
\* cache file as it was.
C6_Step ==
    /\ (nReqs' > nReqs /\ lastReq'[1].status \notin {OK, NOT_MODIFIED}) =>
          /\ spc' = "failed"
          /\ pageCache' = pageCache
    /\ (spc = "failed") =>
          /\ spc' = "idle" /\ nReqs' = 0 /\ pageCache' = pageCache
    /\ (gitCalls' > gitCalls /\ gitExit' # 0) =>
          /\ cpc' = "failed"
          /\ cacheFile' = cacheFile
          /\ fidx' = fidx /\ contributions' = contributions
    /\ (cpc = "failed") =>
          /\ cpc' = "idle" /\ gitCalls' = 0 /\ cacheFile' = cacheFile

C6_FailurePropagates == [][C6_Step]_vars

\* a dump that failed at the second file of a rewrite, the old cache in place
C6_Witness ==
    /\ cpc = "failed"
    /\ gitExit # 0
    /\ fidx >= 1
    /\ existedAtStart /\ cacheFile # <<>>
    /\ cacheFile # <<JsonDump(contributions)>>

\* C7: main raises the missing-token error, before any request, exactly when
\* neither --token, GITHUB_TOKEN nor the token file holds a non-empty token;
\* a token from --token (preferred) or GITHUB_TOKEN is saved to the token
\* file, where later runs find it.
C7_Gate ==
    /\ spc \in {"parsed", "notoken"} => (nReqs = 0 /\ fetched = <<>>)
    /\ spc = "notoken" =>
          /\ argToken \in {None, ""} /\ envToken \in {None, ""}
          /\ tokenFile \in {None, ""}
    /\ spc \in {"first", "loop", "done", "failed"} =>
          /\ token \notin {None, ""}
          /\ token = tokenFile
          /\ argToken \notin {None, ""} => token = argToken
          /\ (argToken \in {None, ""} /\ envToken \notin {None, ""}) => token = envToken

C7_Step ==
    /\ (spc = "parsed" /\ spc' # "parsed") =>
          /\ (spc' = "notoken") <=>
                (argToken \in {None, ""} /\ envToken \in {None, ""}
                    /\ tokenFile \in {None, ""})
          /\ spc' \in {"notoken", "first"}
          /\ (argToken \in {None, ""} /\ envToken \in {None, ""}) =>
                (tokenFile' = tokenFile /\ token' = tokenFile)
    /\ (tokenFile \notin {None, ""}) => (tokenFile' \notin {None, ""})
    /\ (spc # "parsed") => tokenFile' = tokenFile

C7_TokenGate == []C7_Gate /\ [][C7_Step]_vars

\* a run given neither --token nor GITHUB_TOKEN that downloads with the
\* token an earlier run saved
C7_Witness ==
    /\ spc = "loop"
    /\ argToken = None /\ envToken \in {None, ""}
    /\ token \in {"t1", "t2"}
    /\ nReqs >= 1

==========================================================================
